---- MODULE Spec2Model ----
(***************************************************************************)
(* The domain entities of the sales-analytics repository: Customer,        *)
(* Product and Sale (src/src/domain/entities).  Each is a dataclass whose  *)
(* __post_init__ validates the fields, and Product and Sale carry derived  *)
(* calculations.  A caller holds at most one entity at a time (obj) and    *)
(* the outcome of the call it made last (last).                            *)
(*                                                                         *)
(* Python values are records tagged with their type.  A Decimal is         *)
(* [type |-> "Decimal", c, s]: the number c * 10^(-s), coefficient c and   *)
(* s digits after the point, as decimal.Decimal keeps them (exponent -s).  *)
(***************************************************************************)
EXTENDS Integers, Sequences, FiniteSets, TLC

VARIABLES obj, last

vars == <<obj, last>>

---------------------------------------------------------------------------
(* Bounds of the inputs the caller draws.                                  *)

MaxCoef == 2
MaxScale == 1
MaxStock == 2
MaxQty == 2
MaxLen == 2

---------------------------------------------------------------------------
(* Python values and call outcomes.                                        *)

PyNone == [type |-> "None"]
PyInt(n) == [type |-> "int", n |-> n]
PyBool(b) == [type |-> "bool", b |-> b]
PyFloat(c, s) == [type |-> "float", c |-> c, s |-> s]
Dec(c, s) == [type |-> "Decimal", c |-> c, s |-> s]

Return(v) == [kind |-> "return", value |-> v]
Raise(e, m) == [kind |-> "raise", error |-> e, msg |-> m]

NoObject == [class |-> "none"]

---------------------------------------------------------------------------
(* decimal.Decimal arithmetic, exact as long as the coefficient fits the   *)
(* context precision (28 digits), which every value here does.             *)

Max(a, b) == IF a >= b THEN a ELSE b

RECURSIVE Pow10(_)
Pow10(n) == IF n = 0 THEN 1 ELSE 10 * Pow10(n - 1)

\* the coefficient of a at s digits after the point, s >= a.s
Aligned(a, s) == a.c * Pow10(s - a.s)

\* an int operand of a Decimal operation is converted with Decimal(int)
FromInt(n) == Dec(n, 0)

\* Decimal comparison is numeric: Decimal("20.0") == Decimal("20.00")
DecEq(a, b) == LET s == Max(a.s, b.s) IN Aligned(a, s) = Aligned(b, s)
DecLt(a, b) == LET s == Max(a.s, b.s) IN Aligned(a, s) < Aligned(b, s)

\* a * b: coefficients multiply, exponents add
DecMul(a, b) == Dec(a.c * b.c, a.s + b.s)

\* a - b: at the smaller exponent of the two
DecSub(a, b) == LET s == Max(a.s, b.s) IN Dec(Aligned(a, s) - Aligned(b, s), s)

\* The exact quotient a / b, b # 0: the coefficient at the ideal exponent
\* (a's minus b's) when the division is exact there, else with as many more
\* digits as make it exact.  (Inexact quotients, which the context would
\* round, are not reached by any call below.)
RECURSIVE QuotAt(_, _, _)
QuotAt(a, b, s) ==
    LET num == a.c * Pow10(b.s + s - a.s)
    IN  IF num % b.c = 0 THEN [c |-> num \div b.c, s |-> s]
        ELSE QuotAt(a, b, s + 1)

\* Decimal.__truediv__: 0 / 0 signals InvalidOperation (DivisionUndefined),
\* x / 0 signals DivisionByZero; both are trapped, that is raised.
DecDiv(a, b) ==
    IF b.c = 0
    THEN Raise(IF a.c = 0 THEN "InvalidOperation" ELSE "DivisionByZero", "x / 0")
    ELSE LET q == QuotAt(a, b, Max(0, a.s - b.s)) IN Return(Dec(q.c, q.s))

\* int / int is float division; for the small ints drawn here the float's
\* repr is the exact quotient's decimal expansion
IntDiv(n, m) ==
    IF m = 0 THEN Raise("ZeroDivisionError", "division by zero")
    ELSE LET q == QuotAt(FromInt(n), FromInt(m), 0) IN Return(PyFloat(q.c, q.s))

\* x / y for x a Decimal or an int and y an int
TrueDiv(x, y) ==
    IF x.type = "int" THEN IntDiv(x.n, y) ELSE DecDiv(x, FromInt(y))

---------------------------------------------------------------------------
(* Strings are sequences of one-character strings.                         *)

DigitChars == <<"0", "1", "2", "3", "4", "5", "6", "7", "8", "9">>
Whitespace == {" ", "\t", "\n"}

Abs(n) == IF n < 0 THEN -n ELSE n

RECURSIVE Digits(_)
Digits(n) ==
    IF n < 10 THEN <<DigitChars[n + 1]>>
    ELSE Append(Digits(n \div 10), DigitChars[(n % 10) + 1])

RECURSIVE ZeroPad(_, _)
ZeroPad(ds, k) == IF Len(ds) >= k THEN ds ELSE ZeroPad(<<"0">> \o ds, k)

\* the plain notation of c * 10^(-s): sign, integer digits, and s digits
\* after a point when s > 0
NumStr(c, s) ==
    LET ds == ZeroPad(Digits(Abs(c)), s + 1)
        n == Len(ds)
        body == IF s = 0 THEN ds
                ELSE SubSeq(ds, 1, n - s) \o <<".">> \o SubSeq(ds, n - s + 1, n)
    IN  IF c < 0 THEN <<"-">> \o body ELSE body

\* str(x): a Decimal prints its coefficient at its own exponent ("0.50"), a
\* float prints the shortest digits with at least one after the point ("1.0")
Str(x) ==
    IF x.type = "float" /\ x.s = 0 THEN NumStr(x.c * 10, 1) ELSE NumStr(x.c, x.s)

DigitVal(ch) == CHOOSE k \in 0..9 : DigitChars[k + 1] = ch

RECURSIVE ParseNum(_, _, _, _)
ParseNum(str, c, s, point) ==
    IF str = <<>> THEN [c |-> c, s |-> s]
    ELSE IF Head(str) = "." THEN ParseNum(Tail(str), c, s, TRUE)
    ELSE ParseNum(Tail(str), 10 * c + DigitVal(Head(str)),
                  IF point THEN s + 1 ELSE s, point)

\* Decimal(str): the digits become the coefficient, the digits after the
\* point the exponent
DecFromStr(str) ==
    LET neg == str # <<>> /\ Head(str) = "-"
        p == ParseNum(IF neg THEN Tail(str) ELSE str, 0, 0, FALSE)
    IN  Dec(IF neg THEN -p.c ELSE p.c, p.s)

RECURSIVE LStrip(_)
LStrip(str) ==
    IF str # <<>> /\ Head(str) \in Whitespace THEN LStrip(Tail(str)) ELSE str

RECURSIVE RStrip(_)
RStrip(str) ==
    IF str # <<>> /\ str[Len(str)] \in Whitespace
    THEN RStrip(SubSeq(str, 1, Len(str) - 1)) ELSE str

\* str.strip()
Strip(str) == RStrip(LStrip(str))

\* sub in str, for a one-character sub
Contains(str, ch) == \E i \in 1..Len(str) : str[i] = ch

---------------------------------------------------------------------------
(* Customer                                                                *)

\* a variant that tests the name without stripping it
Customer_post_init_unstripped(self) ==
    IF self.email = <<>> \/ ~Contains(self.email, "@")
    THEN Raise("ValueError", "El correo electronico no es valido.")
    ELSE IF self.name = <<>>
    THEN Raise("ValueError", "El nombre del cliente no puede estar vacio.")
    ELSE Return(PyNone)

Customer_post_init(self) ==
    IF self.email = <<>> \/ ~Contains(self.email, "@")
    THEN Raise("ValueError", "El correo electronico no es valido.")
    ELSE IF Strip(self.name) = <<>>
    THEN Raise("ValueError", "El nombre del cliente no puede estar vacio.")
    ELSE Return(PyNone)

\* a variant that stores the name stripped
Customer_fields_stripped(args) ==
    [class |-> "Customer", id |-> args.id, name |-> Strip(args.name),
     email |-> args.email, phone |-> args.phone, region |-> args.region,
     registration_date |-> args.registration_date, segment |-> args.segment]

\* the dataclass __init__: every field is assigned the argument of its name
Customer_fields(args) ==
    [class |-> "Customer", id |-> args.id, name |-> args.name,
     email |-> args.email, phone |-> args.phone, region |-> args.region,
     registration_date |-> args.registration_date, segment |-> args.segment]

\* Customer(...): __init__, then __post_init__; an exception leaves no object
Customer(args) ==
    LET self == Customer_fields(args)
        r == Customer_post_init(self)
    IN  [out |-> r, obj |-> IF r.kind = "raise" THEN NoObject ELSE self]

---------------------------------------------------------------------------
(* Product                                                                 *)

\* a variant that wants the price positive, as its message says
Product_post_init_positive_price(self) ==
    IF ~DecLt(FromInt(0), self.price)
    THEN Raise("ValueError", "El precio debe ser positivo.")
    ELSE IF DecLt(self.cost, FromInt(0))
    THEN Raise("ValueError", "El costo no puede ser negativo.")
    ELSE IF self.stock < 0
    THEN Raise("ValueError", "El stock no puede ser negativo.")
    ELSE Return(PyNone)

\* a variant that does not test the stock
Product_post_init_no_stock(self) ==
    IF DecLt(self.price, FromInt(0))
    THEN Raise("ValueError", "El precio debe ser positivo.")
    ELSE IF DecLt(self.cost, FromInt(0))
    THEN Raise("ValueError", "El costo no puede ser negativo.")
    ELSE Return(PyNone)

Product_post_init(self) ==
    IF DecLt(self.price, FromInt(0))
    THEN Raise("ValueError", "El precio debe ser positivo.")
    ELSE IF DecLt(self.cost, FromInt(0))
    THEN Raise("ValueError", "El costo no puede ser negativo.")
    ELSE IF self.stock < 0
    THEN Raise("ValueError", "El stock no puede ser negativo.")
    ELSE Return(PyNone)

Product_fields(args) ==
    [class |-> "Product", id |-> args.id, name |-> args.name,
     category |-> args.category, price |-> args.price, cost |-> args.cost,
     stock |-> args.stock]

Product(args) ==
    LET self == Product_fields(args)
        r == Product_post_init(self)
    IN  [out |-> r, obj |-> IF r.kind = "raise" THEN NoObject ELSE self]

\* The division is made when price == 0; for any other price the body is
\* skipped and the function falls off its end, returning None.
calculate_margin(self) ==
    IF DecEq(self.price, FromInt(0))
    THEN LET q == DecDiv(DecSub(self.price, self.cost), self.price)
         IN  IF q.kind = "raise" THEN q
             ELSE Return(DecMul(q.value, FromInt(100)))
    ELSE Return(PyNone)

\* self after calculate_margin: the method assigns no attribute
calculate_margin_self(self) == self

\* a variant that takes the quantity asked for out of the stock
is_in_stock_reserving(self, quantity) ==
    IF quantity > 0 /\ self.stock >= quantity
    THEN [self EXCEPT !.stock = @ - quantity]
    ELSE self

\* self after is_in_stock: the method assigns no attribute
is_in_stock_self(self, quantity) == self

\* a variant with the strict comparison
is_in_stock_strict(self, quantity) == Return(PyBool(self.stock > quantity))

is_in_stock(self, quantity) == Return(PyBool(self.stock >= quantity))

---------------------------------------------------------------------------
(* Sale                                                                    *)

\* a variant that does not test the total
Sale_post_init_no_total(self) ==
    IF self.quantity <= 0
    THEN Raise("ValueError", "La cantidad debe ser mayor que cero.")
    ELSE IF DecLt(self.unit_price, FromInt(0))
    THEN Raise("ValueError", "El precio unitario no puede ser negativo.")
    ELSE Return(PyNone)

\* a variant that wants the Sale to have an id
Sale_post_init_wants_id(self) ==
    IF self.id = PyNone
    THEN Raise("ValueError", "La venta debe tener un identificador.")
    ELSE IF self.quantity <= 0
    THEN Raise("ValueError", "La cantidad debe ser mayor que cero.")
    ELSE IF DecLt(self.unit_price, FromInt(0))
    THEN Raise("ValueError", "El precio unitario no puede ser negativo.")
    ELSE IF ~DecEq(self.total_amount, DecMul(self.unit_price, FromInt(self.quantity)))
    THEN Raise("ValueError",
               "El monto total debe ser igual al precio unitario por la cantidad.")
    ELSE Return(PyNone)

Sale_post_init(self) ==
    IF self.quantity <= 0
    THEN Raise("ValueError", "La cantidad debe ser mayor que cero.")
    ELSE IF DecLt(self.unit_price, FromInt(0))
    THEN Raise("ValueError", "El precio unitario no puede ser negativo.")
    ELSE IF ~DecEq(self.total_amount, DecMul(self.unit_price, FromInt(self.quantity)))
    THEN Raise("ValueError",
               "El monto total debe ser igual al precio unitario por la cantidad.")
    ELSE Return(PyNone)

Sale_fields(args) ==
    [class |-> "Sale", id |-> args.id, date |-> args.date,
     product_id |-> args.product_id, customer_id |-> args.customer_id,
     quantity |-> args.quantity, unit_price |-> args.unit_price,
     total_amount |-> args.total_amount, region |-> args.region,
     category |-> args.category]

Sale(args) ==
    LET self == Sale_fields(args)
        r == Sale_post_init(self)
    IN  [out |-> r, obj |-> IF r.kind = "raise" THEN NoObject ELSE self]

\* a variant that clamps the discounted amount at zero
calculate_discount_clamped(self, discount_percentage) ==
    LET q == TrueDiv(discount_percentage, 100)
        v == DecMul(self.total_amount, DecSub(FromInt(1), DecFromStr(Str(q.value))))
    IN  IF q.kind = "raise" THEN q
        ELSE Return(IF v.c < 0 THEN Dec(0, v.s) ELSE v)

\* total_amount * (1 - Decimal(str(discount_percentage / 100)))
calculate_discount(self, discount_percentage) ==
    LET q == TrueDiv(discount_percentage, 100)
    IN  IF q.kind = "raise" THEN q
        ELSE Return(DecMul(self.total_amount,
                           DecSub(FromInt(1), DecFromStr(Str(q.value)))))

\* self after calculate_discount: the method assigns no attribute
calculate_discount_self(self, discount_percentage) == self

---------------------------------------------------------------------------
(* Settings (config/settings.py)                                           *)

\* "mysql+pymysql://"
UrlScheme ==
    <<"m", "y", "s", "q", "l", "+", "p", "y", "m", "y", "s", "q", "l", ":",
      "/", "/">>

\* the fields of a loaded Settings object
Settings_fields(args) ==
    [class |-> "Settings", DB_HOST |-> args.DB_HOST, DB_PORT |-> args.DB_PORT,
     DB_NAME |-> args.DB_NAME, DB_USER |-> args.DB_USER,
     DB_PASSWORD |-> args.DB_PASSWORD, APP_ENV |-> args.APP_ENV,
     DEBUG |-> args.DEBUG, POWERBI_EXPORT_PATH |-> args.POWERBI_EXPORT_PATH]

\* a variant that leaves the port out of the URL
database_url_no_port(self) ==
    UrlScheme \o self.DB_USER \o <<":">> \o self.DB_PASSWORD \o <<"@">>
        \o self.DB_HOST \o <<"/">> \o self.DB_NAME

\* the f-string: the literal pieces and each field formatted in its place,
\* the int DB_PORT in decimal digits
database_url(self) ==
    UrlScheme \o self.DB_USER \o <<":">> \o self.DB_PASSWORD \o <<"@">>
        \o self.DB_HOST \o <<":">> \o NumStr(self.DB_PORT, 0) \o <<"/">>
        \o self.DB_NAME

---------------------------------------------------------------------------
(* The arguments a caller draws.                                           *)

PyStr(chars) == [type |-> "str", chars |-> chars]

StringsOver(alphabet) == UNION {[1..n -> alphabet] : n \in 0..MaxLen}

Names == StringsOver({"a", " "})
Emails == StringsOver({"a", "@"})

\* id: Optional[int]
Ids == {PyNone, PyInt(1)}

\* amounts on a small grid, negative ones included, and the amounts of the
\* documented examples: 6.00, 10.00, 20.00, 21.00, 100.00
Amounts ==
    {Dec(c, s) : c \in -1..MaxCoef, s \in 0..MaxScale}
        \cup {Dec(600, 2), Dec(1000, 2), Dec(2000, 2), Dec(2100, 2), Dec(10000, 2)}

CustomerInputs ==
    [id : Ids, name : Names, email : Emails, phone : {"555-0100"},
     region : {"North"}, registration_date : {"2024-01-01"},
     segment : {PyNone, PyStr("VIP")}]

ProductInputs ==
    [id : Ids, name : {"Widget"}, category : {"Tools"},
     price : Amounts, cost : Amounts, stock : -1..MaxStock]

\* the fields of a Sale that __post_init__ does not read; no Product and no
\* Customer exists when a Sale is constructed, whatever product_id and
\* customer_id say
SaleContexts ==
    {[date |-> "2024-01-01", region |-> "North", category |-> "Tools"],
     [date |-> "2024-12-31", region |-> "South", category |-> "Toys"]}

SaleReferences ==
    {[id |-> i, date |-> c.date, product_id |-> p, customer_id |-> k,
      region |-> c.region, category |-> c.category] :
         i \in Ids, p \in {1, 99}, k \in {1, 99}, c \in SaleContexts}

SaleInputs ==
    {[id |-> r.id, date |-> r.date, product_id |-> r.product_id,
      customer_id |-> r.customer_id, quantity |-> q, unit_price |-> u,
      total_amount |-> t, region |-> r.region, category |-> r.category] :
         r \in SaleReferences, q \in -1..MaxQty, u \in Amounts, t \in Amounts}

StockQueries == -(MaxStock + 1)..(MaxStock + 1)

\* discount percentages, as Decimal and as int: below 0, 0, inside (0, 100),
\* 100 and above 100
Discounts ==
    {Dec(-10, 0), Dec(0, 0), Dec(0, 2), Dec(125, 1), Dec(50, 0), Dec(5000, 2),
     Dec(100, 0), Dec(150, 0)}
        \cup {PyInt(n) : n \in {-10, 0, 33, 50, 100, 150}}

\* the defaults of the Settings fields
DefaultSettings ==
    [DB_HOST |->
        <<"l", "o", "c", "a", "l", "h", "o", "s", "t">>,
     DB_PORT |-> 3306,
     DB_NAME |->
        <<"s", "a", "l", "e", "s", "_", "a", "n", "a", "l", "y", "t", "i",
          "c", "s">>,
     DB_USER |->
        <<"s", "a", "l", "e", "s", "_", "u", "s", "e", "r">>,
     DB_PASSWORD |->
        <<"s", "a", "l", "e", "s", "_", "p", "a", "s", "s", "1", "2", "3">>,
     APP_ENV |->
        <<"d", "e", "v", "e", "l", "o", "p", "m", "e", "n", "t">>,
     DEBUG |-> TRUE,
     POWERBI_EXPORT_PATH |->
        <<".", "/", "d", "a", "t", "a", "/", "e", "x", "p", "o", "r", "t",
          "s", "/">>]

\* each field at its default or at a value the environment overrides it with
SettingsInputs ==
    [DB_HOST : {DefaultSettings.DB_HOST, <<"d", "b">>},
     DB_PORT : {DefaultSettings.DB_PORT, 80},
     DB_NAME : {DefaultSettings.DB_NAME, <<"s">>},
     DB_USER : {DefaultSettings.DB_USER, <<"u">>},
     DB_PASSWORD : {DefaultSettings.DB_PASSWORD, <<"p", "@", ":", "/">>},
     APP_ENV : {DefaultSettings.APP_ENV, <<"p", "r", "o", "d">>},
     DEBUG : BOOLEAN,
     POWERBI_EXPORT_PATH : {DefaultSettings.POWERBI_EXPORT_PATH, <<"/", "x">>}]

NoArgs == [none |-> TRUE]

---------------------------------------------------------------------------
(* The caller: holding nothing, it constructs an entity (and holds nothing *)
(* still when the construction raised), calls the methods of the entity it *)
(* holds any number of times, and discards it.                             *)

Idle == [op |-> "none", args |-> NoArgs, out |-> Return(PyNone)]

Init ==
    /\ obj = NoObject
    /\ last = Idle

NewCustomer ==
    /\ last = Idle
    /\ \E args \in CustomerInputs :
        LET r == Customer(args)
        IN  /\ obj' = r.obj
            /\ last' = [op |-> "Customer", args |-> args, out |-> r.out]

NewProduct ==
    /\ last = Idle
    /\ \E args \in ProductInputs :
        LET r == Product(args)
        IN  /\ obj' = r.obj
            /\ last' = [op |-> "Product", args |-> args, out |-> r.out]

NewSale ==
    /\ last = Idle
    /\ \E args \in SaleInputs :
        LET r == Sale(args)
        IN  /\ obj' = r.obj
            /\ last' = [op |-> "Sale", args |-> args, out |-> r.out]

CallCalculateMargin ==
    /\ obj.class = "Product"
    /\ last' = [op |-> "calculate_margin", args |-> NoArgs,
                out |-> calculate_margin(obj)]
    /\ obj' = calculate_margin_self(obj)

CallIsInStock ==
    /\ obj.class = "Product"
    /\ \E q \in StockQueries :
        /\ last' = [op |-> "is_in_stock", args |-> [quantity |-> q],
                    out |-> is_in_stock(obj, q)]
        /\ obj' = is_in_stock_self(obj, q)

CallCalculateDiscount ==
    /\ obj.class = "Sale"
    /\ \E d \in Discounts :
        /\ last' = [op |-> "calculate_discount",
                    args |-> [discount_percentage |-> d],
                    out |-> calculate_discount(obj, d)]
        /\ obj' = calculate_discount_self(obj, d)

\* the caller drops its reference and the result of its last call
Discard ==
    /\ last # Idle
    /\ obj' = NoObject
    /\ last' = Idle

\* settings = Settings(): the fields as the defaults and the environment
\* give them
LoadSettings ==
    /\ last = Idle
    /\ \E args \in SettingsInputs :
        /\ obj' = Settings_fields(args)
        /\ last' = [op |-> "Settings", args |-> args, out |-> Return(PyNone)]

\* settings.database_url
ReadDatabaseUrl ==
    /\ obj.class = "Settings"
    /\ last' = [op |-> "database_url", args |-> NoArgs,
                out |-> Return(PyStr(database_url(obj)))]
    /\ UNCHANGED obj

Next ==
    \/ NewCustomer
    \/ NewProduct
    \/ NewSale
    \/ CallCalculateMargin
    \/ CallIsInStock
    \/ CallCalculateDiscount
    \/ Discard

Spec == Init /\ [][Next]_vars

\* the configuration alone: loading the settings and reading the URL
SettingsNext ==
    \/ LoadSettings
    \/ ReadDatabaseUrl
    \/ Discard

SettingsSpec == Init /\ [][SettingsNext]_vars

---------------------------------------------------------------------------
(* Properties.  Amounts are compared as numbers: c1 / 10^s1 = c2 / 10^s2   *)
(* exactly when c1 * 10^s2 = c2 * 10^s1.                                   *)

Constructors == {"Customer", "Product", "Sale"}

Succeeded == last.out.kind = "return"
Rejected == last.out.kind = "raise" /\ last.out.error = "ValueError"

\* C1: Sale construction succeeds if and only if quantity > 0, unit_price >= 0
\* and total_amount equals unit_price * quantity exactly; every other
\* combination is rejected with the validation error and yields no object.
SaleContract(a) ==
    /\ a.quantity > 0
    /\ a.unit_price.c >= 0
    /\ a.total_amount.c * Pow10(a.unit_price.s)
           = a.unit_price.c * a.quantity * Pow10(a.total_amount.s)

SaleConstructionContract ==
    last.op = "Sale" =>
        /\ Succeeded <=> SaleContract(last.args)
        /\ Succeeded => obj.class = "Sale"
        /\ ~Succeeded => Rejected /\ obj = NoObject

\* quantity 2, unit_price 10.00, total_amount 21.00 was rejected
SaleMismatchRejected ==
    /\ last.op = "Sale"
    /\ last.args.quantity = 2
    /\ last.args.unit_price = Dec(1000, 2)
    /\ last.args.total_amount = Dec(2100, 2)
    /\ Rejected

\* C2: Product construction succeeds if and only if price >= 0, cost >= 0 and
\* stock >= 0, zero accepted for each; a negative one is rejected with the
\* validation error.
ProductContract(a) == a.price.c >= 0 /\ a.cost.c >= 0 /\ a.stock >= 0

ProductConstructionContract ==
    last.op = "Product" =>
        /\ Succeeded <=> ProductContract(last.args)
        /\ Succeeded => obj.class = "Product"
        /\ ~Succeeded => Rejected /\ obj = NoObject

\* price 0, cost 0 and stock 0 were accepted
ProductAllZeroAccepted ==
    /\ last.op = "Product"
    /\ last.args.price.c = 0
    /\ last.args.cost.c = 0
    /\ last.args.stock = 0
    /\ Succeeded
    /\ obj.class = "Product"

\* C3: Customer construction succeeds if and only if the email contains "@"
\* and the name has a character that is not whitespace; every other
\* (name, email) is rejected with the validation error.
CustomerContract(a) ==
    /\ \E i \in DOMAIN a.email : a.email[i] = "@"
    /\ \E i \in DOMAIN a.name : a.name[i] \notin Whitespace

CustomerConstructionContract ==
    last.op = "Customer" =>
        /\ Succeeded <=> CustomerContract(last.args)
        /\ Succeeded => obj.class = "Customer"
        /\ ~Succeeded => Rejected /\ obj = NoObject

\* a whitespace-only name with an email that has "@" was rejected
BlankNameRejected ==
    /\ last.op = "Customer"
    /\ Len(last.args.name) > 0
    /\ \A i \in DOMAIN last.args.name : last.args.name[i] = " "
    /\ Contains(last.args.email, "@")
    /\ Rejected

\* C4: for a Product with price # 0, calculate_margin() returns
\* (price - cost) / price * 100: a Decimal m with m * price = (price - cost) * 100.
MarginIsPercentage ==
    (last.op = "calculate_margin" /\ obj.price.c # 0) =>
        /\ Succeeded
        /\ last.out.value.type = "Decimal"
        /\ DecEq(DecMul(last.out.value, obj.price),
                 DecMul(DecSub(obj.price, obj.cost), FromInt(100)))

\* C5: for a Product with price = 0, calculate_margin() completes without
\* raising and returns nothing (None).
MarginOfZeroPriceIsNone ==
    (last.op = "calculate_margin" /\ obj.price.c = 0) =>
        last.out = Return(PyNone)

\* C6: calculate_discount(d) never rejects d and returns
\* total_amount * (1 - d / 100) unclamped: d = 0 gives total_amount, d = 50 on
\* 100.00 gives 50.00, d = 100 gives 0, d > 100 on a positive total gives a
\* negative amount.
AsDecimal(d) == IF d.type = "int" THEN FromInt(d.n) ELSE d

DiscountUnclamped ==
    last.op = "calculate_discount" =>
        LET d == AsDecimal(last.args.discount_percentage)
            t == obj.total_amount
            v == last.out.value
        IN  /\ Succeeded
            /\ v.type = "Decimal"
            /\ DecEq(DecMul(v, FromInt(100)), DecMul(t, DecSub(FromInt(100), d)))
            /\ d.c = 0 => DecEq(v, t)
            /\ (DecEq(d, FromInt(50)) /\ t = Dec(10000, 2)) => DecEq(v, Dec(5000, 2))
            /\ DecEq(d, FromInt(100)) => v.c = 0
            /\ (DecLt(FromInt(100), d) /\ t.c > 0) => v.c < 0

\* d = 150 on total_amount 100.00 returned -50.00
DiscountAboveHundredNegative ==
    /\ last.op = "calculate_discount"
    /\ last.args.discount_percentage = Dec(150, 0)
    /\ obj.total_amount = Dec(10000, 2)
    /\ Succeeded
    /\ DecEq(last.out.value, Dec(-5000, 2))

\* C7: for every Product and every integer q, zero and negative included,
\* is_in_stock(q) returns true if and only if q <= stock; it returns true for
\* every q <= 0.
InStockIffEnough ==
    last.op = "is_in_stock" =>
        LET q == last.args.quantity
        IN  /\ Succeeded
            /\ last.out.value.type = "bool"
            /\ last.out.value.b <=> q <= obj.stock
            /\ q <= 0 => last.out.value.b

\* a query for a negative quantity on a Product without stock returned true
InStockNegativeQuery ==
    /\ last.op = "is_in_stock"
    /\ obj.stock = 0
    /\ last.args.quantity < 0
    /\ last.out.value = PyBool(TRUE)

\* C8: the only error any operation produces is the validation error raised
\* by a constructor; calculate_margin, is_in_stock and calculate_discount
\* never raise.
OnlyValidationErrors ==
    last.out.kind = "raise" =>
        last.op \in Constructors /\ last.out.error = "ValueError"

\* C9: no invalid entity ever exists: whatever was constructed and called,
\* the Customer held has "@" in its email and a non-blank name, the Product
\* held has price, cost, stock >= 0, and the Sale held has quantity > 0,
\* unit_price >= 0 and total_amount = unit_price * quantity.
ValidEntity(e) ==
    CASE e.class = "Customer" -> CustomerContract(e)
      [] e.class = "Product" -> ProductContract(e)
      [] e.class = "Sale" -> SaleContract(e)
      [] OTHER -> e = NoObject

NoInvalidEntity == ValidEntity(obj)

\* a Product with no stock is still held after its methods were called
ZeroStockProductSurvivesCalls ==
    /\ obj.class = "Product"
    /\ obj.stock = 0
    /\ last.op = "is_in_stock"
    /\ last.args.quantity > 0

\* C10: round trip: every field read back from a constructed entity equals
\* the argument passed in; the constructor alters no field (the name is
\* stored untrimmed).
ConstructorRoundTrip ==
    (last.op \in Constructors /\ Succeeded) =>
        /\ obj.class = last.op
        /\ DOMAIN obj = DOMAIN last.args \cup {"class"}
        /\ \A f \in DOMAIN last.args : obj[f] = last.args[f]

\* a Customer whose name has surrounding blanks was accepted and keeps them
UntrimmedNameStored ==
    /\ last.op = "Customer"
    /\ Succeeded
    /\ last.args.name = <<" ", "a">>
    /\ obj.name = <<" ", "a">>

\* C11: database_url is "mysql+pymysql://" + DB_USER + ":" + DB_PASSWORD + "@"
\* + DB_HOST + ":" + DB_PORT + "/" + DB_NAME, piece after piece, and every
\* Settings that agrees with this one on the five DB_* fields (whatever its
\* APP_ENV, DEBUG and POWERBI_EXPORT_PATH) has the same URL.
Slice(str, from, len) == SubSeq(str, from, from + len - 1)

SameDatabase(a, b) ==
    /\ a.DB_HOST = b.DB_HOST
    /\ a.DB_PORT = b.DB_PORT
    /\ a.DB_NAME = b.DB_NAME
    /\ a.DB_USER = b.DB_USER
    /\ a.DB_PASSWORD = b.DB_PASSWORD

DatabaseUrlFromDbFields ==
    last.op = "database_url" =>
        LET url == last.out.value.chars
            user == 17
            pass == user + Len(obj.DB_USER) + 1
            host == pass + Len(obj.DB_PASSWORD) + 1
            port == host + Len(obj.DB_HOST) + 1
            name == Len(url) - Len(obj.DB_NAME) + 1
            digits == Slice(url, port, name - 1 - port)
        IN  /\ Succeeded
            /\ last.out.value.type = "str"
            /\ Slice(url, 1, 16) = UrlScheme
            /\ Slice(url, user, Len(obj.DB_USER)) = obj.DB_USER
            /\ url[pass - 1] = ":"
            /\ Slice(url, pass, Len(obj.DB_PASSWORD)) = obj.DB_PASSWORD
            /\ url[host - 1] = "@"
            /\ Slice(url, host, Len(obj.DB_HOST)) = obj.DB_HOST
            /\ url[port - 1] = ":"
            /\ name - 1 > port
            /\ \A i \in DOMAIN digits : \E k \in DOMAIN DigitChars : digits[i] = DigitChars[k]
            /\ ParseNum(digits, 0, 0, FALSE) = [c |-> obj.DB_PORT, s |-> 0]
            /\ url[name - 1] = "/"
            /\ Slice(url, name, Len(obj.DB_NAME)) = obj.DB_NAME
            /\ \A other \in SettingsInputs :
                   SameDatabase(other, obj) =>
                       database_url(Settings_fields(other)) = url

\* the URL of the defaults, read with DEBUG off
DefaultDatabaseUrlRead ==
    /\ last.op = "database_url"
    /\ SameDatabase(obj, DefaultSettings)
    /\ obj.DEBUG = FALSE
    /\ last.out.value.chars =
           UrlScheme \o DefaultSettings.DB_USER \o <<":">>
               \o DefaultSettings.DB_PASSWORD \o <<"@", "l", "o", "c", "a", "l",
               "h", "o", "s", "t", ":", "3", "3", "0", "6", "/">>
               \o DefaultSettings.DB_NAME

\* C12: the derived operations are pure: a call of calculate_margin,
\* is_in_stock or calculate_discount, after any calls before it, leaves every
\* field of the entity as it was (no stock is reserved, total_amount is not
\* changed), and the same call on the entity gives again the result it gave.
Methods == {"calculate_margin", "is_in_stock", "calculate_discount"}

SameCallAgain ==
    CASE last.op = "calculate_margin" -> calculate_margin(obj)
      [] last.op = "is_in_stock" -> is_in_stock(obj, last.args.quantity)
      [] last.op = "calculate_discount" ->
             calculate_discount(obj, last.args.discount_percentage)
      [] OTHER -> last.out

MethodsArePure ==
    /\ [](last.op \in Methods => last.out = SameCallAgain)
    /\ [][last'.op \in Methods =>
              /\ obj' = obj
              /\ \A f \in DOMAIN obj : obj'[f] = obj[f]]_vars

\* a Product answered that all of its stock is available and kept its stock
FullStockQueryKeepsStock ==
    /\ last.op = "is_in_stock"
    /\ obj.stock = MaxStock
    /\ last.args.quantity = MaxStock
    /\ last.out.value = PyBool(TRUE)

\* C13: Sale construction enforces no referential integrity: its outcome
\* depends on (quantity, unit_price, total_amount) alone, so an attempt with
\* the same three and any other id, date, product_id, customer_id, region and
\* category has the same outcome, and a Sale that refers to no existing
\* Product or Customer is accepted.
WithReferences(args, r) ==
    [f \in DOMAIN args |-> IF f \in DOMAIN r THEN r[f] ELSE args[f]]

SaleOutcomeIgnoresReferences ==
    last.op = "Sale" =>
        \A r \in SaleReferences :
            LET other == Sale(WithReferences(last.args, r))
            IN  /\ other.out = last.out
                /\ (other.obj = NoObject) <=> (obj = NoObject)

\* a Sale of a product and to a customer that do not exist was accepted
DanglingSaleAccepted ==
    /\ last.op = "Sale"
    /\ last.args.product_id = 99
    /\ last.args.customer_id = 99
    /\ Succeeded
    /\ obj.class = "Sale"
    /\ obj.product_id = 99
    /\ obj.customer_id = 99

====
